---------------------------- MODULE Spec2Model ----------------------------
(***************************************************************************)
(* A model of @actvalue/mysql-redis-cache: the cache client                *)
(* (src/unnamed/part_002, class Client) and the cache invalidator          *)
(* (src/Typescript/src/server.ts, class Server).                           *)
(*                                                                         *)
(* Strings whose text matters (cache keys, parameter names, the hex        *)
(* digest) are sequences of one-character strings, so that concatenation   *)
(* is \o and String.prototype.includes is a search for a sub-sequence.     *)
(* JSON texts and query texts are atomic strings.                          *)
(***************************************************************************)
EXTENDS Integers, Sequences, FiniteSets, TLC

VARIABLES
    \* ---- getKeyFromQuery applied to drawn inputs (SpecKey)
    kQuery,       \* the query / signature
    kParams,      \* params: a sequence of JavaScript values
    kNames,       \* paramNames: a sequence of strings
    kKey,         \* the key returned
    kPc,          \* "input" before the call, "done" after it
    \* ---- the jittered expiration computed for a drawn ttl (SpecTtl)
    tTtl,         \* the requested ttl, in seconds
    tRnd,         \* the draw of Math.random(), as tRnd / RandSteps
    tEx,          \* the EX option passed to SET
    tPc,          \* "input" before the computation, "done" after it
    \* ---- the key-value store, shared by the client and the invalidator
    store,        \* key -> [val: the text stored, ttl: seconds left, by: the call that SET it]
    \* ---- the cache client (Spec)
    redisClient,  \* Client.redisClient: 0 (undefined) or the client object it points to
    clients,      \* the store clients createClient has made for the Client, in
                  \* order: "connecting", "ready" or "failed" (connect() rejected)
    mysqlPool,    \* Client.mysqlPool: 0 (undefined) or 1 (the pool)
    db,           \* what the producer / the database query yields at present
    call,         \* the withCache / queryWithCache calls, by order of invocation
    faults,       \* the number of failures the environment has injected
    \* ---- the cache invalidator (SpecDrop)
    srvClient,    \* Server.redisClient: 0 (undefined) or the client object it points to
    srvClients,   \* the store clients createClient has made for the Server, as `clients`
    drop          \* the dropOutdatedCache calls

keyVars == <<kQuery, kParams, kNames, kKey, kPc>>
ttlVars == <<tTtl, tRnd, tEx, tPc>>
cliVars == <<redisClient, clients, mysqlPool, db, call, faults>>

srvVars == <<srvClient, srvClients, drop>>

vars == <<keyVars, ttlVars, store, cliVars, srvVars>>

-----------------------------------------------------------------------------
(* Bounds of the model *)

\* the longest params / paramNames list drawn
MaxParams == 2

\* Math.random() is drawn from {0, 1/RandSteps, ..., (RandSteps-1)/RandSteps}
RandSteps == 1500

\* SpecTtl draws every ttl of 1..MaxTtl (and 3600 and the default)
MaxTtl == 12

\* the default of the ttl parameter
DefaultTtl == 86400

\* the number of withCache / queryWithCache calls made
MaxCalls == 2

\* the number of failures injected: a transport error event, a rejected
\* connect, GET, SET, SCAN or DEL, a failed producer
MaxFaults == 1

\* the number of dropOutdatedCache calls made
MaxDrops == 2

\* the number of keys in the store when the invalidator starts, times the
\* number of dropOutdatedCache calls made
MaxStore == 3

\* the number of SCAN commands a full iteration of the keyspace can take
MaxScans == 2

-----------------------------------------------------------------------------
(* JavaScript values and their conversion to a string *)

Num(n) == [t |-> "num", v |-> n]
Str(s) == [t |-> "str", v |-> s]
Bool(b) == [t |-> "bool", v |-> b]
Arr(a) == [t |-> "arr", v |-> a]
\* a Date object, by its time value in milliseconds
DateVal(ms) == [t |-> "date", v |-> ms]
Null == [t |-> "null", v |-> 0]
Undefined == [t |-> "undef", v |-> 0]

DigitChars == <<"0", "1", "2", "3", "4", "5", "6", "7", "8", "9">>

RECURSIVE NatToString(_)
NatToString(n) ==
    IF n < 10 THEN <<DigitChars[n + 1]>>
    ELSE NatToString(n \div 10) \o <<DigitChars[(n % 10) + 1]>>

\* the string JavaScript's + operator makes of a value (ToString)
JsToString(x) ==
    CASE x.t = "num" -> IF x.v < 0 THEN <<"-">> \o NatToString(0 - x.v)
                        ELSE NatToString(x.v)
      [] x.t = "str" -> x.v
      [] x.t = "undef" -> <<"u", "n", "d", "e", "f", "i", "n", "e", "d">>

\* a mutant: past the end of params the values are taken from its start again
ParamAt_Wraps(params, i) ==
    IF params = <<>> THEN Undefined ELSE params[((i - 1) % Len(params)) + 1]

\* params[i] of a JavaScript array (1-based here): undefined past its end
ParamAt(params, i) == IF i <= Len(params) THEN params[i] ELSE Undefined

-----------------------------------------------------------------------------
(* The signatures used, and their SHA-1 digests in hexadecimal            *)

Q_USERS == "SELECT * FROM users WHERE id = ?"
Q_ONE == "SELECT 1"
Queries == {Q_USERS, Q_ONE}

\* crypto.createHash("sha1").update(query).digest("hex"), tabulated for Queries
Sha1Hex(query) ==
    CASE query = Q_USERS ->
           <<"d","6","f","3","5","3","6","a","c","0","2","7","e","f","d","4","9","1","6","a",
             "1","7","2","a","3","9","1","5","6","f","9","7","c","9","8","9","b","f","d","3">>
      [] query = Q_ONE ->
           <<"4","2","3","6","4","a","0","1","7","b","7","3","e","f","5","1","6","a","0","e",
             "c","a","9","8","2","7","e","6","f","a","0","0","6","2","3","2","5","7","e","e">>

-----------------------------------------------------------------------------
(* Client.getKeyFromQuery *)

\* the forEach over paramNames: key += name + "=" + params[i] + "_"
RECURSIVE KeySegments(_, _, _)
KeySegments(paramNames, params, i) ==
    IF i > Len(paramNames) THEN <<>>
    ELSE paramNames[i] \o <<"=">> \o JsToString(ParamAt(params, i)) \o <<"_">>
         \o KeySegments(paramNames, params, i + 1)

\* a mutant: the hash is put in front of the segments
getKeyFromQuery_Reordered(query, params, paramNames) ==
    Sha1Hex(query)
    \o (IF Len(params) > 0 THEN KeySegments(paramNames, params, 1) ELSE <<>>)

getKeyFromQuery(query, params, paramNames) ==
    (IF Len(params) > 0 THEN KeySegments(paramNames, params, 1) ELSE <<>>)
    \o Sha1Hex(query)

-----------------------------------------------------------------------------
(* SpecKey: getKeyFromQuery on drawn inputs *)

S_A == <<"A">>
S_B == <<"B">>
KeyNames == {S_A, S_B}
KeyValues == {Num(1), Num(2), Str(<<"1">>), Str(<<"1", "_", "B", "=", "2">>)}

SeqsUpTo(S, n) == UNION {[1..k -> S] : k \in 0..n}

KeyIdle ==
    /\ kQuery = Q_ONE
    /\ kParams = <<>>
    /\ kNames = <<>>
    /\ kKey = <<>>
    /\ kPc = "done"

TtlIdle ==
    /\ tTtl = 1
    /\ tRnd = 0
    /\ tEx = 1
    /\ tPc = "done"

CliIdle ==
    /\ redisClient = 0
    /\ clients = <<>>
    /\ mysqlPool = 0
    /\ db = Null
    /\ call = <<>>
    /\ faults = 0

SrvIdle ==
    /\ srvClient = 0
    /\ srvClients = <<>>
    /\ drop = <<>>

KeyInit ==
    /\ TtlIdle
    /\ store = <<>>
    /\ CliIdle
    /\ SrvIdle
    /\ kQuery \in Queries
    /\ kParams \in SeqsUpTo(KeyValues, MaxParams)
    /\ kNames \in SeqsUpTo(KeyNames, MaxParams)
    /\ kKey = <<>>
    /\ kPc = "input"

KeyCall ==
    /\ kPc = "input"
    /\ kKey' = getKeyFromQuery(kQuery, kParams, kNames)
    /\ kPc' = "done"
    /\ UNCHANGED <<kQuery, kParams, kNames, ttlVars, store, cliVars, srvVars>>

KeyNext == KeyCall

SpecKey == KeyInit /\ [][KeyNext]_vars

\* the segments the key format prescribes for names and values of equal length
RECURSIVE NamedSegments(_, _)
NamedSegments(names, values) ==
    IF names = <<>> THEN <<>>
    ELSE Head(names) \o <<"=">> \o JsToString(Head(values)) \o <<"_">>
         \o NamedSegments(Tail(names), Tail(values))

\* C5 (as claimed, and here only for calls whose names and values have the
\* same non-zero length): for a fixed query, any other (params, paramNames)
\* gives another key than the one getKeyFromQuery returned.
C5_KeyUnique ==
    (kPc = "done" /\ Len(kParams) = Len(kNames) /\ Len(kParams) > 0) =>
        \A p \in SeqsUpTo(KeyValues, MaxParams), n \in SeqsUpTo(KeyNames, MaxParams) :
            (Len(p) = Len(n) /\ Len(p) > 0 /\ (p # kParams \/ n # kNames))
                => getKeyFromQuery(kQuery, p, n) # kKey

\* C6: for names and values of equal non-zero length the key is the segments
\* name=value_ in the order given followed by the hex SHA-1 of the signature;
\* without values the key is the hash alone.
C6_KeyFormat ==
    kPc = "done" =>
        /\ (Len(kParams) = Len(kNames) /\ Len(kParams) > 0)
              => kKey = NamedSegments(kNames, kParams) \o Sha1Hex(kQuery)
        /\ Len(kParams) = 0 => kKey = Sha1Hex(kQuery)

\* C6 witness: a key of two segments whose names are given in descending order
C6_Witness ==
    /\ kPc = "done"
    /\ kNames = <<S_B, S_A>>
    /\ kParams = <<Num(2), Num(1)>>
    /\ kKey = <<"B", "=", "2", "_", "A", "=", "1", "_">> \o Sha1Hex(kQuery)

\* one segment name=value_ per name, the value being the one at the position
\* of the name, undefined when there is none
RECURSIVE PositionalSegments(_, _)
PositionalSegments(names, values) ==
    IF names = <<>> THEN <<>>
    ELSE Head(names) \o <<"=">>
         \o JsToString(IF values = <<>> THEN Undefined ELSE Head(values)) \o <<"_">>
         \o PositionalSegments(Tail(names), IF values = <<>> THEN <<>> ELSE Tail(values))

\* C32: the key has one segment per entry of names, with the value at the
\* position of the name; the values past the end of names are not in the key;
\* and without values the key is the hash alone, whatever names holds.
C32_PositionalSegments ==
    kPc = "done" =>
        /\ Len(kParams) > 0 => kKey = PositionalSegments(kNames, kParams) \o Sha1Hex(kQuery)
        /\ Len(kParams) > Len(kNames) =>
              kKey = getKeyFromQuery(kQuery, SubSeq(kParams, 1, Len(kNames)), kNames)
        /\ Len(kParams) = 0 => kKey = Sha1Hex(kQuery)

\* C32 witness: two values for one name, and the key has the first only
C32_Witness ==
    /\ kPc = "done"
    /\ kNames = <<S_A>>
    /\ kParams = <<Num(1), Num(2)>>
    /\ kKey = <<"A", "=", "1", "_">> \o Sha1Hex(kQuery)

-----------------------------------------------------------------------------
(* The jittered expiration of writeToCache and withCache *)

\* a mutant: Math.floor(y)
MathRound_Floor(num, den) == num \div den

\* Math.round(y) for y = num / den, den > 0: floor(y + 1/2)
MathRound(num, den) == (2 * num + den) \div (2 * den)

\* a mutant: the draw is not centred, ttl * (Math.random() * 0.2)
JitterDt_NotCentred(ttl, rnd) == MathRound(ttl * 2 * rnd, 10 * RandSteps)

\* dt = Math.round(ttl * (Math.random() * 0.2 - 0.1)), Math.random() = rnd / RandSteps
JitterDt(ttl, rnd) == MathRound(ttl * (2 * rnd - RandSteps), 10 * RandSteps)

\* EX: ttl + dt
JitteredEX(ttl, rnd) == ttl + JitterDt(ttl, rnd)

TtlInit ==
    /\ KeyIdle
    /\ store = <<>>
    /\ CliIdle
    /\ SrvIdle
    /\ tTtl \in (1..MaxTtl) \cup {3600, DefaultTtl}
    /\ tRnd \in 0..(RandSteps - 1)
    /\ tEx = 0
    /\ tPc = "input"

TtlCompute ==
    /\ tPc = "input"
    /\ tEx' = JitteredEX(tTtl, tRnd)
    /\ tPc' = "done"
    /\ UNCHANGED <<tTtl, tRnd, keyVars, store, cliVars, srvVars>>

TtlNext == TtlCompute

SpecTtl == TtlInit /\ [][TtlNext]_vars

\* C7 (as claimed): for every ttl >= 1 the expiration lies within
\* [0.9 * ttl, 1.1 * ttl].
C7_JitterWithinTenPercent ==
    tPc = "done" => (9 * tTtl <= 10 * tEx /\ 10 * tEx <= 11 * tTtl)

\* C8: for a requested ttl of 3600 the expiration is within [3240, 3960].
C8_Jitter3600 ==
    (tPc = "done" /\ tTtl = 3600) => (3240 <= tEx /\ tEx <= 3960)

\* C8 witness: the lowest draw for ttl = 3600 gives the lower end of the range
C8_Witness == tPc = "done" /\ tTtl = 3600 /\ tRnd = 0 /\ tEx = 3240

\* C34: for every integer ttl >= 1 and every draw the expiration passed to
\* SET is an integer that is at least 1.
C34_ExpirationPositiveInteger ==
    (tPc = "done" /\ tTtl >= 1) => (tEx \in Nat /\ tEx >= 1)

\* C34 witness: the lowest draw for the least ttl gives 1
C34_Witness == tPc = "done" /\ tTtl = 1 /\ tRnd = 0 /\ tEx = 1

-----------------------------------------------------------------------------
(* JSON.stringify and JSON.parse *)

QUOTE == <<"q">>

\* Date.prototype.toISOString, tabulated for the time value 0
IsoString(ms) ==
    CASE ms = 0 -> <<"1","9","7","0","-","0","1","-","0","1","T",
                     "0","0",":","0","0",":","0","0",".","0","0","0","Z">>

RECURSIVE JsonStringify(_)
RECURSIVE JsonElements(_, _)

\* the elements of an array from the i-th on, separated by commas
JsonElements(a, i) ==
    IF i > Len(a) THEN <<>>
    ELSE (IF i > 1 THEN <<",">> ELSE <<>>) \o JsonStringify(a[i]) \o JsonElements(a, i + 1)

\* JSON.stringify(x), compact; QUOTE stands for the double quote. A Date is
\* written as the string of its toJSON(), which is toISOString().
JsonStringify(x) ==
    CASE x.t = "null" -> <<"n", "u", "l", "l">>
      [] x.t = "bool" -> IF x.v THEN <<"t", "r", "u", "e">> ELSE <<"f", "a", "l", "s", "e">>
      [] x.t = "num" -> JsToString(x)
      [] x.t = "str" -> QUOTE \o x.v \o QUOTE
      [] x.t = "date" -> QUOTE \o IsoString(x.v) \o QUOTE
      [] x.t = "arr" -> <<"[">> \o JsonElements(x.v, 1) \o <<"]">>

\* what the producer can yield: the falsy values, a row set, a row set with a
\* temporal field
Results == {Null, Bool(FALSE), Num(0), Str(<<>>), Arr(<<Num(1234)>>), Arr(<<DateVal(0)>>)}

\* the JSON values whose texts can be in the store
JsonValues ==
    {Null, Bool(FALSE), Bool(TRUE), Num(0), Num(1234), Str(<<>>), Str(IsoString(0)),
     Arr(<<Num(1234)>>), Arr(<<Str(IsoString(0))>>)}

IsJson(text) == \E v \in JsonValues : JsonStringify(v) = text

\* JSON.parse(text) of a valid text: the JSON value that is written so
JsonParse(text) == CHOOSE v \in JsonValues : JsonStringify(v) = text

\* the truthiness of what GET resolved to (a string, null or undefined)
Truthy(x) == x.t = "str" /\ x.v # <<>>

-----------------------------------------------------------------------------
(* The store: GET, SET with EX, and the passing of time *)

Keys == DOMAIN store

StoreGet(key) == IF key \in Keys THEN Str(store[key].val) ELSE Null

\* a mutant: SET without the EX option, the entry outlives every ttl drawn
StoreSet_NoExpiry(key, val, ex, by) ==
    [k \in Keys \cup {key} |->
        IF k = key THEN [val |-> val, ttl |-> 100 * ex, by |-> by] ELSE store[k]]

\* SET key val EX ex
StoreSet(key, val, ex, by) ==
    [k \in Keys \cup {key} |->
        IF k = key THEN [val |-> val, ttl |-> ex, by |-> by] ELSE store[k]]

\* the store one second later: the entries whose time is up are gone
StoreTick ==
    [k \in {x \in Keys : store[x].ttl > 1} |-> [store[k] EXCEPT !.ttl = @ - 1]]

-----------------------------------------------------------------------------
(* Spec: the cache client, class Client *)

S_UserId == <<"U", "s", "e", "r", "I", "d">>

\* the (query, params, paramNames) the calls are made with
ArgMenu == {<<Q_USERS, <<Num(1234)>>, <<S_UserId>>>>, <<Q_USERS, <<>>, <<>>>>}

\* the ttl the calls are made with: the one of the tests, and the least one
\* whose jitter is not zero
TtlMenu == {2, 6}

\* the EX a call with ttl can pass to SET, over all draws of Math.random()
ExMenu == [ttl \in TtlMenu |-> {JitteredEX(ttl, rnd) : rnd \in 0..(RandSteps - 1)}]

Calls == 1..MaxCalls

IdleCall ==
    [pc |-> "idle", op |-> "withCache", query |-> Q_ONE, params |-> <<>>, names |-> <<>>,
     ttl |-> 0, key |-> <<>>, issued |-> FALSE, on |-> 0, result |-> Undefined, r |-> Undefined,
     setVal |-> <<>>, setEx |-> 0, out |-> "none", ret |-> Undefined,
     \* history: the events of the call in order; the calls that had ended when it
     \* was made; those of them that returned a fresh result for the same key, with
     \* no SET by another, deletion or expiry of the key from their return to the
     \* GET of this call; the writer of the entry its GET found; the seconds since
     \* its SET (-1: no SET); whether the key has been left alone since it
     \* returned; whether the key was SET by another or deleted since its SET
     ev |-> <<>>, after |-> {}, pre |-> {}, saw |-> 0, age |-> 0 - 1,
     quiet |-> FALSE, rewritten |-> FALSE,
     \* whether the store client emitted "error" while the call was in progress
     errd |-> FALSE,
     \* what the store and the producer answered the call with, in order
     inp |-> <<>>]

Init ==
    /\ KeyIdle
    /\ TtlIdle
    /\ store = <<>>
    /\ redisClient = 0
    /\ clients = <<>>
    /\ mysqlPool = 0
    /\ db \in Results
    /\ call = [c \in Calls |-> IdleCall]
    /\ faults = 0
    /\ SrvIdle

NProd(c) == Cardinality({i \in DOMAIN call[c].ev : call[c].ev[i] = "fn"})
NSet(c) == Cardinality({i \in DOMAIN call[c].ev : call[c].ev[i] = "set"})

\* what a call is answered with: by the store (connect, get, set) or by the
\* producer (fn); whether it resolved, the value it resolved to, and whether
\* the handle this.redisClient was set when the call went on
Answer(what, ok, val, handle) == [what |-> what, ok |-> ok, val |-> val, handle |-> handle]

\* a call ends: it returns a value or throws
Finish(rec, out, ret) == [rec EXCEPT !.pc = "done", !.out = out, !.ret = ret]

\* call c writes `key`: for the other calls the key is no longer left alone
Touched(c, key) ==
    [d \in Calls |->
        IF d # c /\ call[d].key = key
        THEN [call[d] EXCEPT !.quiet = FALSE, !.rewritten = (call[d].age >= 0)]
        ELSE call[d]]

\* a mutant: every call makes a store client of its own
Start_AlwaysConnects(c, op, a, ttl) ==
    /\ call[c].pc = "idle"
    /\ c > 1 => call[c - 1].pc # "idle"
    /\ clients' = Append(clients, "connecting")
    /\ redisClient' = Len(clients) + 1
    /\ call' = [call EXCEPT ![c] =
           [@ EXCEPT !.op = op, !.query = a[1], !.params = a[2], !.names = a[3],
                     !.ttl = ttl, !.after = {d \in Calls : call[d].pc = "done"},
                     !.pc = "connecting", !.on = Len(clients) + 1]]
    /\ UNCHANGED <<keyVars, ttlVars, srvVars, store, mysqlPool, db, faults>>

\* withCache(fn, query, params, paramNames, ttl) or queryWithCache(query, ...)
\* is called: with no client, _connectRedis makes one, points redisClient
\* to it and awaits connect(); with a client the GET is issued at once.
Start(c, op, a, ttl) ==
    /\ call[c].pc = "idle"
    /\ c > 1 => call[c - 1].pc # "idle"
    /\ LET rec == [call[c] EXCEPT !.op = op, !.query = a[1], !.params = a[2],
                                  !.names = a[3], !.ttl = ttl,
                                  !.after = {d \in Calls : call[d].pc = "done"}]
       IN  IF redisClient = 0
           THEN /\ clients' = Append(clients, "connecting")
                /\ redisClient' = Len(clients) + 1
                /\ call' = [call EXCEPT ![c] =
                       [rec EXCEPT !.pc = "connecting", !.on = Len(clients) + 1]]
           ELSE /\ call' = [call EXCEPT ![c] =
                       [rec EXCEPT !.pc = "getting", !.issued = TRUE, !.on = redisClient,
                                   !.key = getKeyFromQuery(a[1], a[2], a[3])]]
                /\ UNCHANGED <<redisClient, clients>>
    /\ UNCHANGED <<keyVars, ttlVars, srvVars, store, mysqlPool, db, faults>>

\* connect() resolves: the key is derived and this.redisClient?.get(key) is
\* evaluated, which issues no GET when the handle has been cleared
ConnectOk(c) ==
    /\ call[c].pc = "connecting"
    /\ clients' = [clients EXCEPT ![call[c].on] = "ready"]
    /\ call' = [call EXCEPT ![c] =
           [@ EXCEPT !.pc = "getting", !.issued = (redisClient # 0), !.on = redisClient,
                     !.key = getKeyFromQuery(call[c].query, call[c].params,
                                             call[c].names)]]
    /\ UNCHANGED <<keyVars, ttlVars, srvVars, store, redisClient, mysqlPool, db, faults>>

\* connect() rejects: the call throws
ConnectFail(c) ==
    /\ call[c].pc = "connecting"
    /\ faults < MaxFaults
    /\ faults' = faults + 1
    /\ clients' = [clients EXCEPT ![call[c].on] = "failed"]
    /\ call' = [call EXCEPT ![c] =
           Finish([@ EXCEPT !.inp = Append(@, Answer("connect", FALSE, Undefined, TRUE))], "error", Undefined)]
    /\ UNCHANGED <<keyVars, ttlVars, srvVars, store, redisClient, mysqlPool, db>>

\* fn() is invoked; the fn of queryWithCache is queryToPromise, which makes
\* the pool when there is none
InvokeProducer(rec) == [rec EXCEPT !.pc = "producing", !.ev = Append(@, "fn")]

\* a mutant: the truthiness of the parsed value decides, if (JSON.parse(result))
AfterGet_ParsedTruthy(rec) ==
    IF Truthy(rec.result) /\ IsJson(rec.result.v)
       /\ JsonParse(rec.result.v) \notin {Null, Bool(FALSE), Num(0), Str(<<>>)}
    THEN Finish(rec, "hit", JsonParse(rec.result.v))
    ELSE InvokeProducer(rec)

\* if (result) return JSON.parse(result); const r = await fn();
AfterGet(rec) ==
    IF Truthy(rec.result)
    THEN IF IsJson(rec.result.v)
         THEN Finish(rec, "hit", JsonParse(rec.result.v))
         ELSE Finish(rec, "error", Undefined)
    ELSE InvokeProducer(rec)

\* mysqlPool is the number of the pool it points to, 0 for undefined: pools
\* are numbered as createPool makes them
PoolAfter(rec) ==
    IF rec.pc = "producing" /\ rec.op = "queryWithCache" /\ mysqlPool = 0
    THEN mysqlPool + 1
    ELSE mysqlPool

\* a mutant: the entry is read with GETEX, a hit starts its time again
GetReply_RefreshesTtl(c) ==
    /\ call[c].pc = "getting"
    /\ call[c].issued
    /\ clients[call[c].on] = "ready"
    /\ LET k == call[c].key
           rec == [call[c] EXCEPT
                      !.result = StoreGet(k),
                      !.ev = Append(@, "get"),
                      !.inp = Append(@, Answer("get", TRUE, StoreGet(k), TRUE)),
                      !.saw = IF k \in Keys THEN store[k].by ELSE 0,
                      !.pre = {d \in call[c].after :
                                  /\ call[d].key = k
                                  /\ call[d].out = "fresh"
                                  /\ call[d].quiet}]
           nxt == AfterGet(rec)
       IN  /\ call' = [call EXCEPT ![c] = nxt]
           /\ mysqlPool' = PoolAfter(nxt)
           /\ store' = IF k \in Keys
                       THEN StoreSet(k, store[k].val, call[c].ttl, store[k].by)
                       ELSE store
    /\ UNCHANGED <<keyVars, ttlVars, srvVars, redisClient, clients, db, faults>>

\* the store answers the GET, and the call goes on with the answer
GetReply(c) ==
    /\ call[c].pc = "getting"
    /\ call[c].issued
    /\ clients[call[c].on] = "ready"
    /\ LET k == call[c].key
           rec == [call[c] EXCEPT
                      !.result = StoreGet(k),
                      !.ev = Append(@, "get"),
                      !.inp = Append(@, Answer("get", TRUE, StoreGet(k), TRUE)),
                      !.saw = IF k \in Keys THEN store[k].by ELSE 0,
                      !.pre = {d \in call[c].after :
                                  /\ call[d].key = k
                                  /\ call[d].out = "fresh"
                                  /\ call[d].quiet}]
           nxt == AfterGet(rec)
       IN  /\ call' = [call EXCEPT ![c] = nxt]
           /\ mysqlPool' = PoolAfter(nxt)
    /\ UNCHANGED <<keyVars, ttlVars, srvVars, store, redisClient, clients, db, faults>>

\* no GET was issued: result is undefined, and the call goes on
GetSkipped(c) ==
    /\ call[c].pc = "getting"
    /\ ~call[c].issued
    /\ LET nxt == AfterGet([call[c] EXCEPT !.result = Undefined,
                                           !.inp = Append(@, Answer("get", TRUE, Undefined, FALSE))])
       IN  /\ call' = [call EXCEPT ![c] = nxt]
           /\ mysqlPool' = PoolAfter(nxt)
    /\ UNCHANGED <<keyVars, ttlVars, srvVars, store, redisClient, clients, db, faults>>

\* the GET rejects, for a failure of the transport or because the client it
\* was queued on did not connect: the call throws
GetFail(c) ==
    /\ call[c].pc = "getting"
    /\ call[c].issued
    /\ \/ faults < MaxFaults /\ faults' = faults + 1
       \/ clients[call[c].on] = "failed" /\ faults' = faults
    /\ call' = [call EXCEPT ![c] =
           Finish([@ EXCEPT !.inp = Append(@, Answer("get", FALSE, Undefined, TRUE))], "error", Undefined)]
    /\ UNCHANGED <<keyVars, ttlVars, srvVars, store, redisClient, clients, mysqlPool, db>>

\* a mutant: queryWithCache returns the rows of the query without caching them
ProducerReturn_QueryNotCached(c) ==
    /\ call[c].pc = "producing"
    /\ \E ex \in ExMenu[call[c].ttl] :
         call' = [call EXCEPT ![c] =
            IF redisClient # 0 /\ call[c].op # "queryWithCache"
            THEN [@ EXCEPT !.pc = "setting", !.r = db, !.on = redisClient,
                           !.setVal = JsonStringify(db), !.setEx = ex,
                           !.inp = Append(@, Answer("fn", TRUE, db, TRUE))]
            ELSE Finish([@ EXCEPT !.r = db, !.quiet = TRUE,
                                  !.inp = Append(@, Answer("fn", TRUE, db, redisClient # 0))],
                        "fresh", db)]
    /\ UNCHANGED <<keyVars, ttlVars, srvVars, store, redisClient, clients, mysqlPool, db, faults>>

\* fn() resolves to r: dt is drawn and this.redisClient?.set(key,
\* JSON.stringify(r), {EX: ttl + dt}) is evaluated, which issues no SET when
\* the handle has been cleared; the call then returns r
ProducerReturn(c) ==
    /\ call[c].pc = "producing"
    /\ \E ex \in ExMenu[call[c].ttl] :
         call' = [call EXCEPT ![c] =
            IF redisClient # 0
            THEN [@ EXCEPT !.pc = "setting", !.r = db, !.on = redisClient,
                           !.setVal = JsonStringify(db), !.setEx = ex,
                           !.inp = Append(@, Answer("fn", TRUE, db, TRUE))]
            ELSE Finish([@ EXCEPT !.r = db, !.quiet = TRUE,
                                  !.inp = Append(@, Answer("fn", TRUE, db, FALSE))], "fresh", db)]
    /\ UNCHANGED <<keyVars, ttlVars, srvVars, store, redisClient, clients, mysqlPool, db, faults>>

\* a mutant: the rejection of fn() is caught and null is cached
ProducerFail_Caches(c) ==
    /\ call[c].pc = "producing"
    /\ faults < MaxFaults
    /\ faults' = faults + 1
    /\ redisClient # 0
    /\ call' = [call EXCEPT ![c] =
           [@ EXCEPT !.pc = "setting", !.ev = Append(@, "fnerr"), !.r = Null,
                     !.on = redisClient, !.setVal = JsonStringify(Null),
                     !.setEx = call[c].ttl]]
    /\ UNCHANGED <<keyVars, ttlVars, srvVars, store, redisClient, clients, mysqlPool, db>>

\* fn() rejects: the call throws
ProducerFail(c) ==
    /\ call[c].pc = "producing"
    /\ faults < MaxFaults
    /\ faults' = faults + 1
    /\ call' = [call EXCEPT ![c] =
           Finish([@ EXCEPT !.ev = Append(@, "fnerr"),
                            !.inp = Append(@, Answer("fn", FALSE, Undefined, TRUE))], "error", Undefined)]
    /\ UNCHANGED <<keyVars, ttlVars, srvVars, store, redisClient, clients, mysqlPool, db>>

\* a mutant: SET with KEEPTTL, an entry that is overwritten keeps its time
SetReply_KeepsExpiry(c) ==
    /\ call[c].pc = "setting"
    /\ clients[call[c].on] = "ready"
    /\ store' = StoreSet(call[c].key, call[c].setVal,
                         IF call[c].key \in Keys THEN store[call[c].key].ttl ELSE call[c].setEx, c)
    /\ call' = [Touched(c, call[c].key) EXCEPT ![c] =
           Finish([@ EXCEPT !.ev = Append(@, "set"), !.age = 0, !.quiet = TRUE,
                            !.rewritten = FALSE, !.inp = Append(@, Answer("set", TRUE, Undefined, TRUE))],
                  "fresh", @.r)]
    /\ UNCHANGED <<keyVars, ttlVars, srvVars, redisClient, clients, mysqlPool, db, faults>>

\* the store executes the SET and the call returns r
SetReply(c) ==
    /\ call[c].pc = "setting"
    /\ clients[call[c].on] = "ready"
    /\ store' = StoreSet(call[c].key, call[c].setVal, call[c].setEx, c)
    /\ call' = [Touched(c, call[c].key) EXCEPT ![c] =
           Finish([@ EXCEPT !.ev = Append(@, "set"), !.age = 0, !.quiet = TRUE,
                            !.rewritten = FALSE, !.inp = Append(@, Answer("set", TRUE, Undefined, TRUE))],
                  "fresh", @.r)]
    /\ UNCHANGED <<keyVars, ttlVars, srvVars, redisClient, clients, mysqlPool, db, faults>>

\* a mutant: the rejection of the SET is caught and the call returns r
SetFail_Swallowed(c) ==
    /\ call[c].pc = "setting"
    /\ \/ faults < MaxFaults /\ faults' = faults + 1
       \/ clients[call[c].on] = "failed" /\ faults' = faults
    /\ call' = [call EXCEPT ![c] =
           Finish([@ EXCEPT !.inp = Append(@, Answer("set", FALSE, Undefined, TRUE))], "fresh", @.r)]
    /\ UNCHANGED <<keyVars, ttlVars, srvVars, store, redisClient, clients, mysqlPool, db>>

\* the SET rejects: the call throws
SetFail(c) ==
    /\ call[c].pc = "setting"
    /\ \/ faults < MaxFaults /\ faults' = faults + 1
       \/ clients[call[c].on] = "failed" /\ faults' = faults
    /\ call' = [call EXCEPT ![c] =
           Finish([@ EXCEPT !.inp = Append(@, Answer("set", FALSE, Undefined, TRUE))], "error", Undefined)]
    /\ UNCHANGED <<keyVars, ttlVars, srvVars, store, redisClient, clients, mysqlPool, db>>

\* a store client emits "error": the callback clears the handle
ErrorEvent ==
    /\ clients # <<>>
    /\ redisClient # 0
    /\ faults < MaxFaults
    /\ faults' = faults + 1
    /\ redisClient' = 0
    /\ call' = [c \in Calls |->
                  [call[c] EXCEPT !.errd = @ \/ call[c].pc \notin {"idle", "done"}]]
    /\ UNCHANGED <<keyVars, ttlVars, srvVars, store, clients, mysqlPool, db>>

\* a second passes while the store holds an entry
Tick ==
    /\ Keys # {}
    /\ store' = StoreTick
    /\ call' = [c \in Calls |->
                  [call[c] EXCEPT
                     !.age = IF @ >= 0 /\ @ < call[c].setEx THEN @ + 1 ELSE @,
                     !.quiet = @ /\ ~(call[c].key \in Keys /\ store[call[c].key].ttl <= 1)]]
    /\ UNCHANGED <<keyVars, ttlVars, srvVars, redisClient, clients, mysqlPool, db, faults>>

Next ==
    \/ \E c \in Calls, op \in {"withCache", "queryWithCache"}, a \in ArgMenu, ttl \in TtlMenu :
          Start(c, op, a, ttl)
    \/ \E c \in Calls : ConnectOk(c)
    \/ \E c \in Calls : ConnectFail(c)
    \/ \E c \in Calls : GetReply(c)
    \/ \E c \in Calls : GetSkipped(c)
    \/ \E c \in Calls : GetFail(c)
    \/ \E c \in Calls : ProducerReturn(c)
    \/ \E c \in Calls : ProducerFail(c)
    \/ \E c \in Calls : SetReply(c)
    \/ \E c \in Calls : SetFail(c)
    \/ ErrorEvent
    \/ Tick

Spec == Init /\ [][Next]_vars

\* C1: when the store holds an entry under the derived key at the GET of a
\* call, the call returns the deserialized entry (what JSON.parse makes of the
\* text its writer stored) and never invokes the producer.
C1_CacheHit ==
    \A c \in Calls :
        call[c].saw # 0 =>
            /\ NProd(c) = 0
            /\ call[c].out = "hit"
            /\ call[c].ret = JsonParse(JsonStringify(call[call[c].saw].r))

\* C1 witness: a call found the entry of a null result and returned null
C1_Witness ==
    \E c \in Calls :
        /\ call[c].saw # 0
        /\ call[call[c].saw].r = Null
        /\ call[c].out = "hit"
        /\ call[c].ret = Null

\* C2 (as claimed): a call whose GET found no entry and that returned the
\* producer's result has invoked the producer once and then had one SET of the
\* serialized result executed, with an expiration, before it returned.
C2_MissOrder ==
    \A c \in Calls :
        (call[c].out = "fresh" /\ call[c].ev # <<>> /\ call[c].ev[1] = "get") =>
            /\ call[c].ev = <<"get", "fn", "set">>
            /\ call[c].setVal = JsonStringify(call[c].r)
            /\ call[c].setEx \in ExMenu[call[c].ttl]

\* C3 (as claimed): a call made after a call with the same arguments returned
\* its result, with no expiry, invalidation or other writer of the key in
\* between, does not invoke the producer: both invoke it once in total.
C3_Idempotent ==
    \A c \in Calls : call[c].pre # {} => NProd(c) = 0

\* C4 (as claimed): what a hit returns equals what the call that wrote the
\* entry returned on its miss.
C4_Transparent ==
    \A c \in Calls :
        (call[c].out = "hit" /\ call[c].saw # 0 /\ call[call[c].saw].out = "fresh") =>
            call[c].ret = call[call[c].saw].ret

ProducerFailed(c) == \E i \in DOMAIN call[c].ev : call[c].ev[i] = "fnerr"

\* C18: a call whose producer (fn, or the query of queryWithCache) failed has
\* thrown, has had no SET issued or executed, and no entry of the store was
\* written by it.
C18_ProducerFailure ==
    \A c \in Calls :
        ProducerFailed(c) =>
            /\ call[c].pc = "done"
            /\ call[c].out = "error"
            /\ NSet(c) = 0
            /\ call[c].age < 0
            /\ \A k \in Keys : store[k].by # c

\* C18 witness: a queryWithCache call missed, its query failed, the call threw
\* and its key is not in the store
C18_Witness ==
    \E c \in Calls :
        /\ call[c].op = "queryWithCache"
        /\ call[c].ev = <<"get", "fn", "fnerr">>
        /\ call[c].out = "error"
        /\ call[c].key \notin Keys

\* C19 (as claimed): a call that could not read the store, its connect having
\* failed or its handle having been cleared by a transport error before the
\* GET, has thrown and has not invoked the producer.
C19_UnreadableStoreIsError ==
    \A c \in Calls :
        (call[c].pc \in {"producing", "setting", "done"} /\ ~call[c].issued) =>
            /\ call[c].out # "fresh"
            /\ NProd(c) = 0

\* C23: without failure, no store client exists before the first call, one
\* store client exists from the first call on and every call in progress
\* uses it, and at most one pool exists, made by a queryWithCache call that
\* executed its query.
C23_LazySingleConnection ==
    faults = 0 =>
        /\ Len(clients) = IF \E c \in Calls : call[c].pc # "idle" THEN 1 ELSE 0
        /\ redisClient = Len(clients)
        /\ \A c \in Calls : call[c].pc \notin {"idle", "done"} => call[c].on = 1
        /\ mysqlPool <= 1
        /\ mysqlPool = 1 =>
              \E c \in Calls : call[c].op = "queryWithCache" /\ NProd(c) = 1

\* C23 witness: two calls in progress on the one client, the first still
\* connecting it
C23_Witness ==
    /\ faults = 0
    /\ Len(clients) = 1
    /\ call[1].pc = "connecting"
    /\ call[2].pc = "getting"
    /\ call[2].on = 1

\* C24 (as claimed): once the store client has emitted "error" the handle is
\* cleared until a call makes a new client, which the next call does before
\* its store command; and a call during which the client emitted "error" has
\* thrown when it ends.
C24_ErrorRecovery ==
    /\ redisClient \in {0, Len(clients)}
    /\ \A c \in Calls :
          (call[c].pc \in {"getting", "setting"} /\ call[c].issued /\ ~call[c].errd) =>
              call[c].on = Len(clients)
    /\ \A c \in Calls :
          (call[c].pc = "done" /\ call[c].errd) => call[c].out = "error"

\* the GET of every call was answered with not-found, for one key
AllMissed ==
    \A c \in Calls :
        /\ call[c].ev # <<>> /\ call[c].ev[1] = "get"
        /\ call[c].result = Null
        /\ call[c].key = call[1].key

\* C25 (as claimed): when the GETs of all the calls for a key found no entry,
\* every call invokes the producer once however far the others are, a call
\* that ends without an error thrown has had its SET executed and returns
\* the fresh result, and the entry in the store is that of the last SET.
C25_NoSingleFlight ==
    AllMissed =>
        \A c \in Calls :
            /\ NProd(c) = 1
            /\ (call[c].pc = "done" /\ call[c].out # "error") =>
                  (call[c].out = "fresh" /\ call[c].ev = <<"get", "fn", "set">>)
            /\ (NSet(c) = 1 /\ ~call[c].rewritten /\ call[c].key \in Keys) =>
                  /\ store[call[c].key].by = c
                  /\ store[call[c].key].val = call[c].setVal

\* the producer of call c resolved and its SET was rejected
SetRejected(c) ==
    /\ call[c].pc = "done"
    /\ call[c].inp # <<>>
    /\ call[c].inp[Len(call[c].inp)] = Answer("set", FALSE, Undefined, TRUE)

\* C40: a withCache call whose producer resolved and whose SET was rejected
\* throws and returns no value; it invoked the producer once, and no entry of
\* the store was written by it.
C40_SetFailureIsError ==
    \A c \in Calls :
        SetRejected(c) =>
            /\ call[c].out = "error" /\ call[c].ret = Undefined
            /\ NProd(c) = 1 /\ NSet(c) = 0
            /\ call[c].ev[Len(call[c].ev)] = "fn"
            /\ \A k \in Keys : store[k].by # c

\* a call threw after its producer had resolved with the rows
C40_Witness ==
    \E c \in Calls :
        /\ SetRejected(c)
        /\ call[c].out = "error"
        /\ call[c].r = db /\ call[c].r # Undefined
        /\ call[c].setVal = JsonStringify(db)
        /\ call[c].key \notin Keys

\* the arguments two calls are made with are the same
SameArguments(c, d) ==
    /\ call[c].query = call[d].query
    /\ call[c].params = call[d].params
    /\ call[c].names = call[d].names
    /\ call[c].ttl = call[d].ttl

\* the store and the producer answered two calls alike, as far as both were
\* answered
AnsweredAlike(c, d) ==
    \A i \in (DOMAIN call[c].inp) \cap (DOMAIN call[d].inp) : call[c].inp[i] = call[d].inp[i]

WriteValues == {Null, Bool(FALSE), Num(0), Str(<<>>), Arr(<<Num(1234)>>)}

\* the calls that returned from a write of `key` that has been left alone since
WritersBefore(c, key) ==
    {w \in call[c].after :
        call[w].op = "writeToCache" /\ call[w].key = key
        /\ call[w].out = "return" /\ call[w].quiet}

\* readFromCache lines 106-108: the key is derived and
\* this.redisClient?.get(key) is evaluated
IssueRead(rec, handle) ==
    [rec EXCEPT !.pc = "reading", !.issued = (handle # 0), !.on = handle,
                !.key = getKeyFromQuery(rec.query, rec.params, rec.names)]

\* writeToCache lines 133-138: the key is derived, dt is drawn and
\* this.redisClient?.set(key, JSON.stringify(value), {EX: ttl + dt}) is
\* returned, which is undefined, with no SET issued, when the handle is cleared
IssueWrite(rec, handle, ex) ==
    LET k == getKeyFromQuery(rec.query, rec.params, rec.names)
    IN  IF handle # 0
        THEN [rec EXCEPT !.pc = "writing", !.on = handle, !.key = k,
                         !.setVal = JsonStringify(rec.r), !.setEx = ex]
        ELSE Finish([rec EXCEPT !.key = k, !.quiet = TRUE], "return", Undefined)

\* what follows the connection check of a primitive
AfterCheck(rec, handle, ex) ==
    IF rec.op = "writeToCache" THEN IssueWrite(rec, handle, ex) ELSE IssueRead(rec, handle)

\* readFromCache(query, params, paramNames) or writeToCache(query, value,
\* params, paramNames, ttl) is called
RwStart(c, op, a, value, ttl) ==
    /\ call[c].pc = "idle"
    /\ c > 1 => call[c - 1].pc # "idle"
    /\ LET rec == [call[c] EXCEPT !.op = op, !.query = a[1], !.params = a[2],
                                  !.names = a[3], !.ttl = ttl,
                                  !.r = IF op = "writeToCache" THEN value ELSE Undefined,
                                  !.after = {d \in Calls : call[d].pc = "done"}]
       IN  IF redisClient = 0
           THEN /\ clients' = Append(clients, "connecting")
                /\ redisClient' = Len(clients) + 1
                /\ call' = [call EXCEPT ![c] =
                       [rec EXCEPT !.pc = "rwconnecting", !.on = Len(clients) + 1]]
           ELSE /\ \E ex \in ExMenu[ttl] :
                      call' = [call EXCEPT ![c] = AfterCheck(rec, redisClient, ex)]
                /\ UNCHANGED <<redisClient, clients>>
    /\ UNCHANGED <<keyVars, ttlVars, srvVars, store, mysqlPool, db, faults>>

\* connect() resolves in a primitive
RwConnectOk(c) ==
    /\ call[c].pc = "rwconnecting"
    /\ clients' = [clients EXCEPT ![call[c].on] = "ready"]
    /\ \E ex \in ExMenu[call[c].ttl] :
          call' = [call EXCEPT ![c] = AfterCheck(@, redisClient, ex)]
    /\ UNCHANGED <<keyVars, ttlVars, srvVars, store, redisClient, mysqlPool, db, faults>>

\* connect() rejects in a primitive: the call throws
RwConnectFail(c) ==
    /\ call[c].pc = "rwconnecting"
    /\ faults < MaxFaults
    /\ faults' = faults + 1
    /\ clients' = [clients EXCEPT ![call[c].on] = "failed"]
    /\ call' = [call EXCEPT ![c] = Finish(@, "error", Undefined)]
    /\ UNCHANGED <<keyVars, ttlVars, srvVars, store, redisClient, mysqlPool, db>>

\* readFromCache lines 110-111: if (result) return JSON.parse(result);
\* return null
AfterRead(rec) ==
    IF Truthy(rec.result)
    THEN IF IsJson(rec.result.v)
         THEN Finish(rec, "return", JsonParse(rec.result.v))
         ELSE Finish(rec, "error", Undefined)
    ELSE Finish(rec, "return", Null)

\* the store answers the GET of readFromCache
ReadReply(c) ==
    /\ call[c].pc = "reading"
    /\ call[c].issued
    /\ clients[call[c].on] = "ready"
    /\ LET k == call[c].key
       IN  call' = [call EXCEPT ![c] =
              AfterRead([@ EXCEPT !.result = StoreGet(k),
                                  !.ev = Append(@, "get"),
                                  !.saw = IF k \in Keys THEN store[k].by ELSE 0,
                                  !.pre = WritersBefore(c, k)])]
    /\ UNCHANGED <<keyVars, ttlVars, srvVars, store, redisClient, clients, mysqlPool, db, faults>>

\* no GET was issued by readFromCache: result is undefined
ReadSkipped(c) ==
    /\ call[c].pc = "reading"
    /\ ~call[c].issued
    /\ call' = [call EXCEPT ![c] =
           AfterRead([@ EXCEPT !.result = Undefined,
                               !.pre = WritersBefore(c, call[c].key)])]
    /\ UNCHANGED <<keyVars, ttlVars, srvVars, store, redisClient, clients, mysqlPool, db, faults>>

\* the GET of readFromCache rejects: the call throws
ReadFail(c) ==
    /\ call[c].pc = "reading"
    /\ call[c].issued
    /\ \/ faults < MaxFaults /\ faults' = faults + 1
       \/ clients[call[c].on] = "failed" /\ faults' = faults
    /\ call' = [call EXCEPT ![c] = Finish(@, "error", Undefined)]
    /\ UNCHANGED <<keyVars, ttlVars, srvVars, store, redisClient, clients, mysqlPool, db>>

\* the store executes the SET of writeToCache, whose promise resolves
WriteReply(c) ==
    /\ call[c].pc = "writing"
    /\ clients[call[c].on] = "ready"
    /\ store' = StoreSet(call[c].key, call[c].setVal, call[c].setEx, c)
    /\ call' = [Touched(c, call[c].key) EXCEPT ![c] =
           Finish([@ EXCEPT !.ev = Append(@, "set"), !.age = 0, !.quiet = TRUE,
                            !.rewritten = FALSE],
                  "return", Str(<<"O", "K">>))]
    /\ UNCHANGED <<keyVars, ttlVars, srvVars, redisClient, clients, mysqlPool, db, faults>>

\* the SET of writeToCache rejects: the call throws
WriteFail(c) ==
    /\ call[c].pc = "writing"
    /\ \/ faults < MaxFaults /\ faults' = faults + 1
       \/ clients[call[c].on] = "failed" /\ faults' = faults
    /\ call' = [call EXCEPT ![c] = Finish(@, "error", Undefined)]
    /\ UNCHANGED <<keyVars, ttlVars, srvVars, store, redisClient, clients, mysqlPool, db>>

RwInit ==
    /\ KeyIdle
    /\ TtlIdle
    /\ store = <<>>
    /\ redisClient = 0
    /\ clients = <<>>
    /\ mysqlPool = 0
    /\ db = Null
    /\ call = [c \in Calls |-> IdleCall]
    /\ faults = 0
    /\ SrvIdle

RwNext ==
    \/ \E c \in Calls, a \in ArgMenu : RwStart(c, "readFromCache", a, Undefined, 2)
    \/ \E c \in Calls, a \in ArgMenu, value \in WriteValues :
          RwStart(c, "writeToCache", a, value, 2)
    \/ \E c \in Calls : RwConnectOk(c)
    \/ \E c \in Calls : RwConnectFail(c)
    \/ \E c \in Calls : ReadReply(c)
    \/ \E c \in Calls : ReadSkipped(c)
    \/ \E c \in Calls : ReadFail(c)
    \/ \E c \in Calls : WriteReply(c)
    \/ \E c \in Calls : WriteFail(c)
    \/ ErrorEvent
    \/ Tick

SpecRW == RwInit /\ [][RwNext]_vars

\* what readFromCache returns when the GET finds no entry
NotFoundResult == AfterRead([IdleCall EXCEPT !.result = StoreGet(<<"-">>)]).ret

\* C21 (as claimed): what readFromCache returns when its GET found an entry
\* differs from what it returns for an absent key.
C21_NotFoundDistinct ==
    \A c \in Calls :
        (/\ call[c].op = "readFromCache"
         /\ call[c].out = "return"
         /\ call[c].result.t = "str") =>
            call[c].ret # NotFoundResult

\* C22 (as claimed): a readFromCache that returns, made after a writeToCache
\* of the same key returned, the entry not having expired nor the key been
\* written by another since, returns the value written; a readFromCache
\* whose GET found no entry returns null.
C22_WriteReadRoundTrip ==
    \A c \in Calls :
        (call[c].op = "readFromCache" /\ call[c].out = "return") =>
            /\ \A w \in call[c].pre : call[c].ret = call[w].r
            /\ call[c].result = Null => call[c].ret = Null

\* ---------------------------------------------------------------------------
\* Client.withCache on a store that holds a payload that is not JSON
\* (SpecCorrupt)
\* ---------------------------------------------------------------------------

\* texts JSON.parse rejects: the empty string and an unfinished array
CorruptTexts == {<<>>, <<"[">>}

\* another writer has put a text that is not JSON under a key the calls use
CorruptInit ==
    /\ KeyIdle
    /\ TtlIdle
    /\ \E a \in ArgMenu, text \in CorruptTexts :
          store = [k \in {getKeyFromQuery(a[1], a[2], a[3])} |->
                      [val |-> text, ttl |-> 2, by |-> 0]]
    /\ redisClient = 0
    /\ clients = <<>>
    /\ mysqlPool = 0
    /\ db = Arr(<<Num(1234)>>)
    /\ call = [c \in Calls |-> IdleCall]
    /\ faults = 0
    /\ SrvIdle

SpecCorrupt == CorruptInit /\ [][Next]_vars

\* C20 (as claimed): a call whose GET was answered with a text that is not
\* valid JSON has thrown, has not invoked the producer and has not written
\* the key.
C20_CorruptEntryIsError ==
    \A c \in Calls :
        (/\ call[c].pc \in {"producing", "setting", "done"}
         /\ call[c].result.t = "str"
         /\ ~IsJson(call[c].result.v)) =>
            /\ call[c].out = "error"
            /\ NProd(c) = 0
            /\ call[c].setVal = <<>>

\* ---------------------------------------------------------------------------
\* Writes over an entry (SpecWrite): writeToCache and withCache with the ttl
\* of TtlMenu, on a store that holds an entry or none
\* ---------------------------------------------------------------------------

\* the values writeToCache is called with
OverValues == {Null, Arr(<<Num(1234)>>)}

WriteInit ==
    /\ KeyIdle
    /\ TtlIdle
    /\ \/ store = <<>>
       \/ \E t \in 1..MaxTtl :
             store = [k \in {getKeyFromQuery(Q_USERS, <<Num(1234)>>, <<S_UserId>>)} |->
                         [val |-> JsonStringify(Str(<<>>)), ttl |-> t, by |-> 0]]
    /\ redisClient = 0
    /\ clients = <<>>
    /\ mysqlPool = 0
    /\ db = Arr(<<Num(1234)>>)
    /\ call = [c \in Calls |-> IdleCall]
    /\ faults = 0
    /\ SrvIdle

WriteNext ==
    \/ \E c \in Calls, ttl \in TtlMenu :
          Start(c, "withCache", <<Q_USERS, <<Num(1234)>>, <<S_UserId>>>>, ttl)
    \/ \E c \in Calls : ConnectOk(c)
    \/ \E c \in Calls : ConnectFail(c)
    \/ \E c \in Calls : GetReply(c)
    \/ \E c \in Calls : GetSkipped(c)
    \/ \E c \in Calls : GetFail(c)
    \/ \E c \in Calls : ProducerReturn(c)
    \/ \E c \in Calls : ProducerFail(c)
    \/ \E c \in Calls : SetReply(c)
    \/ \E c \in Calls : SetFail(c)
    \/ \E c \in Calls, value \in OverValues, ttl \in TtlMenu :
          RwStart(c, "writeToCache", <<Q_USERS, <<Num(1234)>>, <<S_UserId>>>>, value, ttl)
    \/ \E c \in Calls : RwConnectOk(c)
    \/ \E c \in Calls : RwConnectFail(c)
    \/ \E c \in Calls : WriteReply(c)
    \/ \E c \in Calls : WriteFail(c)
    \/ ErrorEvent
    \/ Tick

SpecWrite == WriteInit /\ [][WriteNext]_vars

\* the store executes the SET of call c in this step, on a key that holds an entry
OverwriteStep(c) ==
    /\ call[c].pc \in {"setting", "writing"}
    /\ call'[c].ev = Append(call[c].ev, "set")
    /\ call[c].key \in Keys

\* C33: a SET of writeToCache or of a withCache miss on a key that holds an
\* entry replaces the value and the expiration of the entry: the entry is then
\* the text written and the EX of this write, which is one of the jittered
\* expirations of the ttl of this call whatever the entry was written with.
C33_OverwriteFreshJitter ==
    [][\A c \in Calls :
          OverwriteStep(c) =>
              /\ store'[call[c].key] =
                    [val |-> call[c].setVal, ttl |-> call[c].setEx, by |-> c]
              /\ call[c].setEx \in ExMenu[call[c].ttl]
              /\ \A k \in Keys \ {call[c].key} : store'[k] = store[k]]_vars

\* a withCache miss wrote the key with the least EX of its ttl and a
\* writeToCache with the same ttl then overwrote it with the greatest
C33_Witness ==
    \E c, d \in Calls :
        /\ call[c].op = "withCache" /\ call[c].out = "fresh" /\ NSet(c) = 1
        /\ call[d].op = "writeToCache" /\ call[d].out = "return" /\ NSet(d) = 1
        /\ call[c].key = call[d].key /\ call[c].ttl = call[d].ttl
        /\ call[c].rewritten
        /\ call[c].setEx < call[c].ttl /\ call[d].setEx > call[d].ttl
        /\ call[d].key \in Keys
        /\ store[call[d].key] = [val |-> JsonStringify(Null), ttl |-> call[d].setEx, by |-> d]

\* ---------------------------------------------------------------------------
\* withCache next to its composition from the primitives (SpecCmp): a caller
\* that calls readFromCache and, when it reports null, runs the query and
\* calls writeToCache with the rows (README, Manual Cache Operations)
\* ---------------------------------------------------------------------------

\* the store holds nothing, or the text of a value under the key of the tests
CmpInit ==
    /\ KeyIdle
    /\ TtlIdle
    /\ \/ store = <<>>
       \/ \E value \in WriteValues :
             store = [k \in {getKeyFromQuery(Q_USERS, <<Num(1234)>>, <<S_UserId>>)} |->
                         [val |-> JsonStringify(value), ttl |-> 2, by |-> 0]]
    /\ redisClient = 0
    /\ clients = <<>>
    /\ mysqlPool = 0
    /\ db = Arr(<<Num(1234)>>)
    /\ call = [c \in Calls |-> IdleCall]
    /\ faults = 0
    /\ SrvIdle

\* the caller got null from readFromCache: it runs the query
ComposeMiss(c) ==
    /\ call[c].pc = "done"
    /\ call[c].op = "readFromCache"
    /\ call[c].out = "return"
    /\ call[c].ret = Null
    /\ call' = [call EXCEPT ![c] = [@ EXCEPT !.pc = "querying", !.ev = Append(@, "fn")]]
    /\ UNCHANGED <<keyVars, ttlVars, srvVars, store, redisClient, clients, mysqlPool, db, faults>>

\* the query resolves and the caller calls writeToCache with its rows, which
\* connects first when the handle is not set (writeToCache line 131)
ComposeWrite(c) ==
    /\ call[c].pc = "querying"
    /\ LET rec == [call[c] EXCEPT !.op = "writeToCache", !.r = db]
       IN  IF redisClient = 0
           THEN /\ clients' = Append(clients, "connecting")
                /\ redisClient' = Len(clients) + 1
                /\ call' = [call EXCEPT ![c] =
                       [rec EXCEPT !.pc = "rwconnecting", !.on = Len(clients) + 1]]
           ELSE /\ \E ex \in ExMenu[rec.ttl] :
                      call' = [call EXCEPT ![c] = AfterCheck(rec, redisClient, ex)]
                /\ UNCHANGED <<redisClient, clients>>
    /\ UNCHANGED <<keyVars, ttlVars, srvVars, store, mysqlPool, db, faults>>

\* the query rejects: the caller throws
ComposeQueryFail(c) ==
    /\ call[c].pc = "querying"
    /\ faults < MaxFaults
    /\ faults' = faults + 1
    /\ call' = [call EXCEPT ![c] = Finish([@ EXCEPT !.ev = Append(@, "fnerr")], "error", Undefined)]
    /\ UNCHANGED <<keyVars, ttlVars, srvVars, store, redisClient, clients, mysqlPool, db>>

CmpNext ==
    \/ \E c \in Calls, a \in ArgMenu : Start(c, "withCache", a, 2)
    \/ \E c \in Calls : ConnectOk(c)
    \/ \E c \in Calls : ConnectFail(c)
    \/ \E c \in Calls : GetReply(c)
    \/ \E c \in Calls : GetSkipped(c)
    \/ \E c \in Calls : GetFail(c)
    \/ \E c \in Calls : ProducerReturn(c)
    \/ \E c \in Calls : ProducerFail(c)
    \/ \E c \in Calls : SetReply(c)
    \/ \E c \in Calls : SetFail(c)
    \/ \E c \in Calls, a \in ArgMenu : RwStart(c, "readFromCache", a, Undefined, 2)
    \/ \E c \in Calls : RwConnectOk(c)
    \/ \E c \in Calls : RwConnectFail(c)
    \/ \E c \in Calls : ReadReply(c)
    \/ \E c \in Calls : ReadSkipped(c)
    \/ \E c \in Calls : ReadFail(c)
    \/ \E c \in Calls : ComposeMiss(c)
    \/ \E c \in Calls : ComposeWrite(c)
    \/ \E c \in Calls : ComposeQueryFail(c)
    \/ \E c \in Calls : WriteReply(c)
    \/ \E c \in Calls : WriteFail(c)
    \/ ErrorEvent
    \/ Tick

SpecCmp == CmpInit /\ [][CmpNext]_vars

\* the composition of call c has ended: readFromCache reported a value or
\* threw, or the query threw, or writeToCache returned or threw
Composed(c) ==
    /\ call[c].pc = "done"
    /\ \/ call[c].op = "writeToCache"
       \/ call[c].op = "readFromCache" /\ ~(call[c].out = "return" /\ call[c].ret = Null)

\* C27 (as claimed): a withCache call and a composition of the primitives,
\* made with the same arguments, whose GETs were answered with the same text
\* (a cached null included) and which did not throw, invoke the producer the
\* same number of times and issue the same SETs.
C27_ComposedOfPrimitives ==
    \A c, d \in Calls :
        ( /\ call[c].op = "withCache" /\ call[c].pc = "done" /\ call[c].out # "error"
          /\ Composed(d) /\ call[d].out # "error"
          /\ SameArguments(c, d)
          /\ call[c].ev # <<>> /\ call[c].ev[1] = "get"
          /\ call[d].ev # <<>> /\ call[d].ev[1] = "get"
          /\ call[c].result = call[d].result )
        => /\ NProd(c) = NProd(d)
           /\ NSet(c) = NSet(d)
           /\ call[c].setVal = call[d].setVal

\* call c gets the answer of its GET in this step, and the answer is an entry
HitStep(c) ==
    /\ call[c].pc \in {"getting", "reading"}
    /\ call'[c].ev = Append(call[c].ev, "get")
    /\ call'[c].result.t = "str"

\* C28: a cache hit does not mutate the store. The step in which withCache or
\* readFromCache is answered with an entry leaves every entry, its value and
\* its remaining time included, as it was; and a withCache call that hit has
\* issued its GET and nothing else (no SET, so no refresh of the TTL).
C28_HitLeavesStore ==
    /\ [][\A c \in Calls : HitStep(c) => store' = store]_vars
    /\ [](\A c \in Calls :
             /\ call[c].out = "hit" => call[c].ev = <<"get">>
             /\ (call[c].op = "readFromCache" /\ call[c].pc = "done") => NSet(c) = 0)

\* a withCache call hit and readFromCache reported a value, and the entry they
\* read has a second less to live than when it was written
C28_Witness ==
    \E c, d \in Calls :
        /\ call[c].op = "withCache" /\ call[c].out = "hit"
        /\ call[d].op = "readFromCache" /\ call[d].out = "return" /\ call[d].result.t = "str"
        /\ call[c].key \in Keys /\ call[d].key = call[c].key
        /\ store[call[c].key] = [val |-> call[c].result.v, ttl |-> 1, by |-> 0]

\* ---------------------------------------------------------------------------
\* The cache invalidator: Server.dropOutdatedCache against the store (SpecDrop)
\* ---------------------------------------------------------------------------

S_MinAge == <<"M", "i", "n", "A", "g", "e">>
S_Active == <<"A", "c", "t", "i", "v", "e">>

\* the keys the store can hold when the invalidator starts: the keys the
\* Client derives for these calls
DropArgs ==
    { <<Q_USERS, <<Num(1)>>, <<S_UserId>>>>,
      <<Q_USERS, <<Num(12)>>, <<S_UserId>>>>,
      <<Q_USERS, <<Num(20), Num(1)>>, <<S_MinAge, S_Active>>>>,
      <<Q_USERS, <<Num(30), Num(1)>>, <<S_MinAge, S_Active>>>>,
      <<Q_ONE, <<>>, <<>>>> }

DropKeys == {getKeyFromQuery(a[1], a[2], a[3]) : a \in DropArgs}

\* the (keyNames, keyValues) arguments dropOutdatedCache is called with
DropMenu ==
    { <<<<S_UserId>>, <<Num(1)>>>>,
      <<<<S_MinAge, S_Active>>, <<Num(20), Num(1)>>>>,
      <<<<S_Active>>, <<Num(1)>>>>,
      <<<<S_MinAge>>, <<Num(20)>>>>,
      <<<<>>, <<>>>> }

\* the remaining lifetimes of the entries present when the invalidator starts
DropTtls == {1, 2}

Drops == DOMAIN drop

\* String.prototype.includes
Includes(key, param) ==
    \E i \in 0..(Len(key) - Len(param)) : SubSeq(key, i + 1, i + Len(param)) = param

\* keyNames[i] + '=' + keyValues[i], for every index of keyNames
ParamMatches(keyNames, keyValues) ==
    [i \in 1..Len(keyNames) |-> keyNames[i] \o <<"=">> \o JsToString(ParamAt(keyValues, i))]

\* a mutant: the OR of the older revision, paramMatches.some(...)
MatchesAll_Some(key, paramMatches) ==
    \E i \in 1..Len(paramMatches) : Includes(key, paramMatches[i])

\* paramMatches.every(param => key.includes(param))
MatchesAll(key, paramMatches) ==
    \A i \in 1..Len(paramMatches) : Includes(key, paramMatches[i])

IdleDrop ==
    [ pc |-> "idle", keyNames |-> <<>>, keyValues |-> <<>>, paramMatches |-> <<>>,
      on |-> 0,              \* the client object the command in flight was sent on
      cursor |-> 0,          \* reply.cursor, 0 for '0'
      keys |-> {},           \* the keys of reply.keys the loop has not reached
      key |-> <<>>,          \* the key of the DEL in flight
      deletedCount |-> 0,
      out |-> "none",        \* "return" or "error"
      ret |-> 0,
      \* ---- history, for the properties
      scans |-> 0,           \* SCAN commands answered
      sent |-> <<>>,         \* the cursors of the SCAN commands issued, in order
      got |-> <<>>,          \* the cursors of the SCAN replies, in order
      scanned |-> {},        \* the keys the SCAN replies held
      deld |-> {},           \* the keys of the DEL commands executed
      unseen |-> {},         \* keys of the iteration the SCAN has yet to return
      atStart |-> {},        \* the keys of the store when the call was made
      after |-> {},          \* the calls that had returned when the call was made
      removed |-> {},        \* the keys its DEL commands removed
      quiet |-> TRUE ]       \* nothing but the call has changed the keyspace

DropInit ==
    /\ KeyIdle
    /\ TtlIdle
    /\ CliIdle
    /\ \E K \in SUBSET DropKeys, n \in 1..MaxDrops :
          /\ Cardinality(K) * n <= MaxStore
          /\ store \in [K -> {[val |-> JsonStringify(Null), ttl |-> t, by |-> 0] : t \in DropTtls}]
          /\ drop = [d \in 1..n |-> IdleDrop]
    /\ srvClient = 0
    /\ srvClients = <<>>

\* the call ends, returning or throwing
DropFinish(rec, out, ret) ==
    [rec EXCEPT !.pc = "done", !.out = out, !.ret = ret, !.keys = {}]

\* this.redisClient.scan(reply.cursor): a TypeError when the handle is cleared
IssueScan(rec, handle) ==
    IF handle = 0 THEN DropFinish(rec, "error", 0)
    ELSE [rec EXCEPT !.pc = "scanning", !.on = handle, !.sent = Append(@, rec.cursor)]

\* a mutant: the loop ends after the keys of the first reply, whatever its cursor
LoopOn_OneBatch(rec, handle) ==
    LET matching == {k \in rec.keys : MatchesAll(k, rec.paramMatches)}
    IN  IF matching # {}
        THEN { IF handle = 0 THEN DropFinish(rec, "error", 0)
               ELSE [rec EXCEPT !.pc = "deleting", !.on = handle, !.key = k,
                                !.keys = @ \ {k}] : k \in matching }
        ELSE { DropFinish(rec, "return", rec.deletedCount) }

\* the for loop over reply.keys up to its next await, and the loop condition:
\* the records the call can be in after it
LoopOn(rec, handle) ==
    LET matching == {k \in rec.keys : MatchesAll(k, rec.paramMatches)}
    IN  IF matching # {}
        THEN { IF handle = 0 THEN DropFinish(rec, "error", 0)
               ELSE [rec EXCEPT !.pc = "deleting", !.on = handle, !.key = k,
                                !.keys = @ \ {k}] : k \in matching }
        ELSE IF rec.cursor # 0
             THEN { IssueScan([rec EXCEPT !.keys = {}], handle) }
             ELSE { DropFinish(rec, "return", rec.deletedCount) }

\* a mutant: a call that finds no handle after connecting waits for one
AfterConnect_WaitsForHandle(rec, handle) ==
    IF handle = 0 THEN rec
    ELSE IssueScan([rec EXCEPT !.paramMatches = ParamMatches(rec.keyNames, rec.keyValues),
                               !.cursor = 0, !.deletedCount = 0], handle)

\* lines 44-57 after the connection check
AfterConnect(rec, handle) ==
    IF handle = 0 THEN DropFinish(rec, "return", 0)
    ELSE IssueScan([rec EXCEPT !.paramMatches = ParamMatches(rec.keyNames, rec.keyValues),
                               !.cursor = 0, !.deletedCount = 0], handle)

\* the keyspace changed under the calls in progress
Disturb(d) ==
    [drop[d] EXCEPT !.quiet = @ /\ drop[d].pc \in {"idle", "done"}]

DropStart(d, a) ==
    /\ drop[d].pc = "idle"
    /\ d > 1 => drop[d - 1].pc # "idle"
    /\ LET rec == [drop[d] EXCEPT !.keyNames = a[1], !.keyValues = a[2], !.atStart = Keys,
                                  !.after = {e \in Drops : drop[e].out = "return"}]
       IN  IF srvClient = 0
           THEN /\ srvClients' = Append(srvClients, "connecting")
                /\ srvClient' = Len(srvClients) + 1
                /\ drop' = [drop EXCEPT ![d] = [rec EXCEPT !.pc = "connecting",
                                                           !.on = Len(srvClients) + 1]]
           ELSE /\ drop' = [drop EXCEPT ![d] = AfterConnect(rec, srvClient)]
                /\ UNCHANGED <<srvClient, srvClients>>
    /\ UNCHANGED <<keyVars, ttlVars, cliVars, store>>

\* a mutant: a call that finds the handle cleared after connecting throws
DropConnectOk_Throws(d) ==
    /\ drop[d].pc = "connecting"
    /\ srvClients[drop[d].on] = "connecting"
    /\ srvClients' = [srvClients EXCEPT ![drop[d].on] = "ready"]
    /\ drop' = [drop EXCEPT ![d] =
                   IF srvClient = 0 THEN DropFinish(@, "error", 0)
                   ELSE AfterConnect(@, srvClient)]
    /\ UNCHANGED <<keyVars, ttlVars, cliVars, store, srvClient>>

DropConnectOk(d) ==
    /\ drop[d].pc = "connecting"
    /\ srvClients[drop[d].on] = "connecting"
    /\ srvClients' = [srvClients EXCEPT ![drop[d].on] = "ready"]
    /\ drop' = [drop EXCEPT ![d] = AfterConnect(@, srvClient)]
    /\ UNCHANGED <<keyVars, ttlVars, cliVars, store, srvClient>>

DropConnectFail(d) ==
    /\ drop[d].pc = "connecting"
    /\ srvClients[drop[d].on] = "connecting"
    /\ faults < MaxFaults
    /\ faults' = faults + 1
    /\ srvClients' = [srvClients EXCEPT ![drop[d].on] = "failed"]
    /\ drop' = [drop EXCEPT ![d] = DropFinish(@, "error", 0)]
    /\ UNCHANGED <<keyVars, ttlVars, store, srvClient, redisClient, clients, mysqlPool, db, call>>

\* the store answers a SCAN: some of the keys it holds and the next cursor,
\* '0' when the iteration is complete; every key present during the whole
\* iteration has been returned by then
ScanReply(d) ==
    /\ drop[d].pc = "scanning"
    /\ srvClients[drop[d].on] = "ready"
    /\ \E batch \in SUBSET Keys, more \in BOOLEAN :
          LET todo == IF drop[d].scans = 0 THEN Keys ELSE drop[d].unseen \cap Keys
              rec  == [drop[d] EXCEPT !.scans = @ + 1,
                                      !.unseen = todo \ batch,
                                      !.scanned = @ \cup batch,
                                      !.got = Append(@, IF more THEN drop[d].scans + 1 ELSE 0),
                                      !.cursor = IF more THEN drop[d].scans + 1 ELSE 0,
                                      !.keys = batch]
          IN  /\ more => drop[d].scans + 1 < MaxScans
              /\ ~more => todo \subseteq batch
              /\ \E nxt \in LoopOn(rec, srvClient) : drop' = [drop EXCEPT ![d] = nxt]
    /\ UNCHANGED <<keyVars, ttlVars, cliVars, store, srvClient, srvClients>>

ScanFail(d) ==
    /\ drop[d].pc = "scanning"
    /\ faults < MaxFaults
    /\ faults' = faults + 1
    /\ drop' = [drop EXCEPT ![d] = DropFinish(@, "error", 0)]
    /\ UNCHANGED <<keyVars, ttlVars, store, srvClient, srvClients,
                   redisClient, clients, mysqlPool, db, call>>

\* a mutant: the keys of the reply are removed with one command, DEL with all
\* of them as arguments
DelReply_WholeBatch(d) ==
    /\ drop[d].pc = "deleting"
    /\ srvClients[drop[d].on] = "ready"
    /\ LET k   == drop[d].key
           rec == [drop[d] EXCEPT !.deletedCount = @ + 1,
                                  !.deld = @ \cup {k},
                                  !.removed = IF k \in Keys THEN @ \cup {k} ELSE @]
       IN  /\ store' = [x \in Keys \ ({k} \cup drop[d].keys) |-> store[x]]
           /\ \E nxt \in LoopOn(rec, srvClient) :
                 drop' = [e \in Drops |-> IF e = d THEN nxt
                                          ELSE IF k \in Keys THEN Disturb(e) ELSE drop[e]]
    /\ UNCHANGED <<keyVars, ttlVars, cliVars, srvClient, srvClients>>

\* the store executes a DEL
DelReply(d) ==
    /\ drop[d].pc = "deleting"
    /\ srvClients[drop[d].on] = "ready"
    /\ LET k   == drop[d].key
           rec == [drop[d] EXCEPT !.deletedCount = @ + 1,
                                  !.deld = @ \cup {k},
                                  !.removed = IF k \in Keys THEN @ \cup {k} ELSE @]
       IN  /\ store' = [x \in Keys \ {k} |-> store[x]]
           /\ \E nxt \in LoopOn(rec, srvClient) :
                 drop' = [e \in Drops |-> IF e = d THEN nxt
                                          ELSE IF k \in Keys THEN Disturb(e) ELSE drop[e]]
    /\ UNCHANGED <<keyVars, ttlVars, cliVars, srvClient, srvClients>>

DelFail(d) ==
    /\ drop[d].pc = "deleting"
    /\ faults < MaxFaults
    /\ faults' = faults + 1
    /\ drop' = [drop EXCEPT ![d] = DropFinish(@, "error", 0)]
    /\ UNCHANGED <<keyVars, ttlVars, store, srvClient, srvClients,
                   redisClient, clients, mysqlPool, db, call>>

\* the Server's store client emits "error": the callback clears the handle
SrvErrorEvent ==
    /\ srvClient # 0
    /\ faults < MaxFaults
    /\ faults' = faults + 1
    /\ srvClient' = 0
    /\ UNCHANGED <<keyVars, ttlVars, store, srvClients, drop,
                   redisClient, clients, mysqlPool, db, call>>

\* a second passes while the store holds an entry
DropTick ==
    /\ Keys # {}
    /\ store' = StoreTick
    /\ drop' = [d \in Drops |-> IF DOMAIN StoreTick # Keys THEN Disturb(d) ELSE drop[d]]
    /\ UNCHANGED <<keyVars, ttlVars, cliVars, srvClient, srvClients>>

DropNext ==
    \/ \E d \in Drops, a \in DropMenu : DropStart(d, a)
    \/ \E d \in Drops : DropConnectOk(d)
    \/ \E d \in Drops : DropConnectFail(d)
    \/ \E d \in Drops : ScanReply(d)
    \/ \E d \in Drops : ScanFail(d)
    \/ \E d \in Drops : DelReply(d)
    \/ \E d \in Drops : DelFail(d)
    \/ SrvErrorEvent
    \/ DropTick

SpecDrop == DropInit /\ [][DropNext]_vars

\* the keys of a set that contain every keyName=keyValue substring of a call
Matching(K, d) ==
    {k \in K : \A i \in 1..Len(drop[d].keyNames) :
                  Includes(k, drop[d].keyNames[i] \o <<"=">>
                                \o JsToString(ParamAt(drop[d].keyValues, i)))}

\* C10 (as claimed): when a call of dropOutdatedCache has returned and nothing
\* else changed the keyspace during the call, the keys it deleted are those
\* that contain every keyName=keyValue substring: it removed each such key,
\* and it had no DEL for a key that lacks one of the substrings.
C10_DeletesIffAllMatch ==
    \A d \in Drops :
        (drop[d].out = "return" /\ drop[d].quiet) =>
            /\ drop[d].removed = Matching(drop[d].atStart, d)
            /\ drop[d].deld \cap (drop[d].atStart \ Matching(drop[d].atStart, d)) = {}

\* what holds of every call, returned or not: a key the call deleted contains
\* every substring, and a call that returned after a complete iteration of an
\* undisturbed keyspace deleted every key that does
DropOnlyMatching ==
    \A d \in Drops :
        /\ drop[d].removed \subseteq Matching(drop[d].atStart, d)
        /\ (drop[d].out = "return" /\ drop[d].quiet /\ drop[d].scans > 0) =>
              drop[d].removed = Matching(drop[d].atStart, d)

\* the key of the entry cached with MinAge=20 and Active=1, and that of the
\* entry cached with MinAge=30 and Active=1
Key_MinAge20_Active1 ==
    getKeyFromQuery(Q_USERS, <<Num(20), Num(1)>>, <<S_MinAge, S_Active>>)

Key_MinAge30_Active1 ==
    getKeyFromQuery(Q_USERS, <<Num(30), Num(1)>>, <<S_MinAge, S_Active>>)

\* C11 (as claimed): a call with just one of the pairs MinAge=20, Active=1
\* does not delete the key of the entry cached with both.
C11_OnePairKeepsKey ==
    \A d \in Drops :
        (Len(drop[d].keyNames) = 1 /\ drop[d].keyNames[1] \in {S_MinAge, S_Active}) =>
            Key_MinAge20_Active1 \notin drop[d].removed

\* C11 (amended): a call deletes the keys that contain every substring of the
\* call, whatever else they contain: every DEL of a call is for such a key,
\* and when the call returns, every such key its SCAN replies held has had its
\* DEL and is gone. So the key with MinAge=20 and Active=1 is deleted by a call
\* with both pairs and by a call with either pair alone, and a call with both
\* pairs leaves the key with MinAge=30 and Active=1.
C11_DeletesKeysContainingAll ==
    \A d \in Drops :
        /\ drop[d].deld \subseteq Matching(drop[d].scanned, d)
        /\ drop[d].out = "return" =>
              /\ Matching(drop[d].scanned, d) \subseteq drop[d].deld
              /\ Matching(drop[d].scanned, d) \cap Keys = {}
        /\ drop[d].keyNames = <<S_MinAge, S_Active>> =>
              Key_MinAge30_Active1 \notin drop[d].deld

\* C11 witness: a call with the pair Active=1 alone has returned 1, having
\* removed the key of the entry cached with MinAge=20 and Active=1
C11_Witness ==
    \E d \in Drops :
        /\ drop[d].keyNames = <<S_Active>>
        /\ drop[d].out = "return"
        /\ drop[d].ret = 1
        /\ drop[d].removed = {Key_MinAge20_Active1}

\* the entry of these arguments was cached with the parameter name = value
CachedWith(a, name, value) ==
    \E i \in 1..Len(a[3]) : a[3][i] = name /\ ParamAt(a[2], i) = value

\* C12 (as claimed): a call with one pair name = v removes only entries that
\* were cached with the parameter name = v; the entries cached with another
\* value for that name, or with other names, stay in the store.
C12_ExactEntries ==
    \A d \in Drops :
        Len(drop[d].keyNames) = 1 =>
            \A a \in DropArgs :
                getKeyFromQuery(a[1], a[2], a[3]) \in drop[d].removed =>
                    CachedWith(a, drop[d].keyNames[1], drop[d].keyValues[1])

\* C13 (as claimed): the integer a call returns is the number of entries the
\* DEL commands of that call removed from the store.
C13_CountIsRemoved ==
    \A d \in Drops :
        drop[d].out = "return" => drop[d].ret = Cardinality(drop[d].removed)

\* C14 (as claimed): when the entry queryWithCache cached for (q, params,
\* names), names and params non-empty, is in the store and dropOutdatedCache(
\* names, params) has returned, nothing else having changed the keyspace
\* meanwhile, the key is not in the store, and the call returned 1 if no other
\* key of the store contained the substrings.
C14_CacheThenInvalidate ==
    \A d \in Drops, a \in DropArgs :
        LET k == getKeyFromQuery(a[1], a[2], a[3])
        IN  (/\ Len(a[2]) > 0
             /\ k \in drop[d].atStart
             /\ drop[d].keyNames = a[3] /\ drop[d].keyValues = a[2]
             /\ drop[d].out = "return" /\ drop[d].quiet) =>
                /\ k \notin Keys
                /\ Matching(drop[d].atStart, d) = {k} => drop[d].ret = 1

\* C15 (as claimed): when a call with empty keyNames and keyValues has
\* returned, nothing else having changed the keyspace meanwhile, no key that
\* was in the store is left and the call returned their number.
C15_EmptyListDeletesAll ==
    \A d \in Drops :
        (drop[d].out = "return" /\ drop[d].keyNames = <<>> /\ drop[d].quiet) =>
            /\ Keys = {}
            /\ drop[d].ret = Cardinality(drop[d].atStart)

\* C16 (as claimed): a call that returns when no key matched returned 0 and
\* removed nothing, and so does a call made after a call with the same
\* arguments returned (the model has no writer in between).
C16_Idempotent ==
    \A d \in Drops :
        drop[d].out = "return" =>
            /\ Matching(drop[d].atStart, d) = {} =>
                  (drop[d].ret = 0 /\ drop[d].deld = {})
            /\ (\E e \in drop[d].after :
                   /\ drop[e].keyNames = drop[d].keyNames
                   /\ drop[e].keyValues = drop[d].keyValues) =>
                  (drop[d].ret = 0 /\ drop[d].deld = {})

\* C17: the first SCAN of a call has cursor 0, every later SCAN has the cursor
\* of the reply before it, no SCAN follows a reply with cursor 0, and a call
\* that returns after scanning has had a reply with cursor 0 to its last SCAN
\* and a DEL for every matching key of its replies; while the last reply has
\* another cursor the call has not returned.
C17_ScanProtocol ==
    \A d \in Drops :
        LET sent == drop[d].sent
            got  == drop[d].got
        IN  /\ Len(got) \in {Len(sent), Len(sent) - 1}
            /\ sent # <<>> => sent[1] = 0
            /\ \A i \in 2..Len(sent) : sent[i] = got[i - 1] /\ got[i - 1] # 0
            /\ (drop[d].out = "return" /\ sent # <<>>) =>
                  /\ Len(got) = Len(sent)
                  /\ got[Len(got)] = 0
                  /\ Matching(drop[d].scanned, d) \subseteq drop[d].deld
            /\ (got # <<>> /\ got[Len(got)] = 0 /\ Len(got) = Len(sent)
                  /\ drop[d].pc # "deleting") => drop[d].pc = "done"

\* C17 witness: a call returned after two SCANs, the second with the cursor of
\* the first reply, and a DEL
C17_Witness ==
    \E d \in Drops :
        /\ drop[d].out = "return"
        /\ drop[d].sent = <<0, 1>>
        /\ drop[d].got = <<1, 0>>
        /\ drop[d].deld # {}

\* the step is the DEL of call d: the command in flight is executed
DelStep(d) ==
    /\ drop[d].pc = "deleting"
    /\ drop'[d].deletedCount = drop[d].deletedCount + 1

\* C29: dropOutdatedCache leaves every key it does not match unchanged. A step
\* that changes the store is the passing of time or the DEL of one call, which
\* removes the one key of the command, a key that a SCAN reply of the call held
\* and that contains all the substrings of the call, and leaves every other
\* entry, value and expiration, as it was; no other step of a call touches
\* the store.
C29_OnlyMatchedKeysDeleted ==
    /\ [][store' # store =>
            \/ store' = StoreTick
            \/ \E d \in Drops :
                  /\ DelStep(d)
                  /\ drop[d].key \in drop[d].scanned
                  /\ MatchesAll(drop[d].key, drop[d].paramMatches)
                  /\ store' = [x \in Keys \ {drop[d].key} |-> store[x]]]_vars
    /\ [](\A d \in Drops :
             /\ drop[d].deld \subseteq drop[d].scanned
             /\ \A k \in drop[d].deld : MatchesAll(k, drop[d].paramMatches))

\* a call returned after deleting a key, and a key its SCAN returned that does
\* not contain all its substrings is in the store
C29_Witness ==
    \E d \in Drops :
        /\ drop[d].out = "return"
        /\ drop[d].deld # {}
        /\ \E k \in Keys \cap drop[d].scanned : ~MatchesAll(k, drop[d].paramMatches)

\* connect() of call d resolves in this step, the handle having been cleared
ConnectedWithoutHandle(d) ==
    /\ drop[d].pc = "connecting"
    /\ srvClients[drop[d].on] = "connecting"
    /\ srvClients'[drop[d].on] = "ready"
    /\ srvClient = 0

OtherKeys ==
    { getKeyFromQuery(Q_USERS, <<Num(12)>>, <<S_UserId>>),
      getKeyFromQuery(Q_USERS, <<Num(30), Num(1)>>, <<S_MinAge, S_Active>>) }

\* the keys that were in the store when a call that has been made was made
KeysAtStart == UNION {drop[d].atStart : d \in {e \in Drops : drop[e].pc # "idle"}}

\* another client caches a result under a key that no call found in the store:
\* the SET of Client.writeToCache or Client.withCache
OtherSet(k, ttl) ==
    /\ k \in OtherKeys
    /\ k \notin Keys
    /\ k \notin KeysAtStart
    /\ Cardinality(Keys) < MaxStore
    /\ store' = StoreSet(k, JsonStringify(Null), ttl, 0)
    /\ drop' = [d \in Drops |-> Disturb(d)]
    /\ UNCHANGED <<keyVars, ttlVars, cliVars, srvClient, srvClients>>

\* another client deletes a key: the DEL of another Server
OtherDel(k) ==
    /\ k \in OtherKeys
    /\ k \in Keys
    /\ store' = [x \in Keys \ {k} |-> store[x]]
    /\ drop' = [d \in Drops |-> [Disturb(d) EXCEPT !.unseen = @ \ {k}]]
    /\ UNCHANGED <<keyVars, ttlVars, cliVars, srvClient, srvClients>>

\* the arguments of the call: one pair, of which a key of the other clients
\* contains the substring, and none
ScanMenu ==
    { <<<<S_UserId>>, <<Num(1)>>>>,
      <<<<>>, <<>>>> }

ScanNext ==
    \/ \E d \in Drops, a \in ScanMenu : DropStart(d, a)
    \/ \E d \in Drops : DropConnectOk(d)
    \/ \E d \in Drops : DropConnectFail(d)
    \/ \E d \in Drops : ScanReply(d)
    \/ \E d \in Drops : ScanFail(d)
    \/ \E d \in Drops : DelReply(d)
    \/ \E d \in Drops : DelFail(d)
    \/ SrvErrorEvent
    \/ DropTick
    \/ \E k \in OtherKeys : OtherSet(k, 2)
    \/ \E k \in OtherKeys : OtherDel(k)

\* one call is made, against a store of at most MaxStore - 1 keys, none of
\* them a key of the other clients
ScanInit ==
    /\ KeyIdle
    /\ TtlIdle
    /\ CliIdle
    /\ \E K \in SUBSET (DropKeys \ OtherKeys) :
          /\ Cardinality(K) < MaxStore
          /\ store \in [K -> {[val |-> JsonStringify(Null), ttl |-> t, by |-> 0] : t \in DropTtls}]
    /\ drop = [d \in 1..1 |-> IdleDrop]
    /\ srvClient = 0
    /\ srvClients = <<>>

SpecScan == ScanInit /\ [][ScanNext]_vars

\* C30 (as claimed): when a call of dropOutdatedCache has returned, every key
\* that contains all its substrings and has been in the store since the call
\* was made is a key it deleted, whatever other keys the other clients added
\* or removed meanwhile. (A key of atStart that is in the store has been there
\* all along: no client adds a key that a call found when it was made.)
C30_ScanComplete ==
    \A d \in Drops :
        drop[d].out = "return" =>
            \A k \in Matching(drop[d].atStart \cap Keys, d) : k \in drop[d].deld

\* ---------------------------------------------------------------------------
\* Termination of dropOutdatedCache (SpecDropLive): one call, and a store that
\* answers every command sent to it
\* ---------------------------------------------------------------------------

LiveInit ==
    /\ KeyIdle
    /\ TtlIdle
    /\ CliIdle
    /\ \E K \in SUBSET DropKeys :
          /\ Cardinality(K) < MaxStore
          /\ store \in [K -> {[val |-> JsonStringify(Null), ttl |-> t, by |-> 0] : t \in DropTtls}]
    /\ drop = [d \in 1..1 |-> IdleDrop]
    /\ srvClient = 0
    /\ srvClients = <<>>

\* connect() settles, and the store answers the SCAN and the DEL in flight
DropFairness ==
    \A d \in 1..MaxDrops :
        /\ WF_vars(d \in Drops /\ DropConnectOk(d))
        /\ WF_vars(d \in Drops /\ ScanReply(d))
        /\ WF_vars(d \in Drops /\ DelReply(d))

SpecDropLive == LiveInit /\ [][DropNext]_vars /\ DropFairness

\* C31: every call of dropOutdatedCache that has been made ends: the SCAN
\* cursor returns to 0 after at most MaxScans replies, the keys of a reply are
\* finitely many, and the call then returns its count (or has thrown); the
\* SCAN commands it issued are at most MaxScans and a call that returns after
\* scanning returns the number of its DEL commands.
C31_Termination ==
    \A d \in 1..MaxDrops :
        /\ [](d \in Drops =>
                /\ Len(drop[d].sent) <= MaxScans
                /\ (drop[d].out = "return" /\ drop[d].scans > 0) =>
                       drop[d].ret = drop[d].deletedCount)
        /\ (d \in Drops /\ drop[d].pc \notin {"idle", "done"}) ~> (d \in Drops /\ drop[d].pc = "done")

\* a call returned the count 2 after MaxScans SCAN commands
C31_Witness ==
    \E d \in Drops :
        /\ drop[d].out = "return"
        /\ drop[d].scans = MaxScans
        /\ drop[d].ret = 2
        /\ Cardinality(drop[d].deld) = 2

\* ---------------------------------------------------------------------------
\* withCache and dropOutdatedCache around a change of the data (SpecRace)
\* ---------------------------------------------------------------------------

\* the rows of the query before and after the change
RowsBefore == Arr(<<Num(1234)>>)
RowsAfter == Arr(<<Num(0)>>)

RaceInit ==
    /\ KeyIdle
    /\ TtlIdle
    /\ store = <<>>
    /\ redisClient = 0
    /\ clients = <<>>
    /\ mysqlPool = 0
    /\ db = RowsBefore
    /\ call = [c \in Calls |-> IdleCall]
    /\ faults = 0
    /\ srvClient = 0
    /\ srvClients = <<>>
    /\ drop = [d \in 1..1 |-> IdleDrop]

\* the application changes the rows of user 1234
DataChange ==
    /\ db = RowsBefore
    /\ db' = RowsAfter
    /\ UNCHANGED <<keyVars, ttlVars, srvVars, store, redisClient, clients, mysqlPool, call, faults>>

\* and then invalidates: dropOutdatedCache(['UserId'], [1234])
DropAfterChange(d) ==
    /\ db = RowsAfter
    /\ DropStart(d, <<<<S_UserId>>, <<Num(1234)>>>>)

RaceNext ==
    \/ \E c \in Calls : Start(c, "withCache", <<Q_USERS, <<Num(1234)>>, <<S_UserId>>>>, 2)
    \/ \E c \in Calls : ConnectOk(c)
    \/ \E c \in Calls : ConnectFail(c)
    \/ \E c \in Calls : GetReply(c)
    \/ \E c \in Calls : GetSkipped(c)
    \/ \E c \in Calls : GetFail(c)
    \/ \E c \in Calls : ProducerReturn(c)
    \/ \E c \in Calls : ProducerFail(c)
    \/ \E c \in Calls : SetReply(c)
    \/ \E c \in Calls : SetFail(c)
    \/ ErrorEvent
    \/ DataChange
    \/ \E d \in Drops : DropAfterChange(d)
    \/ \E d \in Drops : DropConnectOk(d)
    \/ \E d \in Drops : DropConnectFail(d)
    \/ \E d \in Drops : ScanReply(d)
    \/ \E d \in Drops : ScanFail(d)
    \/ \E d \in Drops : DelReply(d)
    \/ \E d \in Drops : DelFail(d)
    \/ SrvErrorEvent

SpecRace == RaceInit /\ [][RaceNext]_vars

\* C35 (as claimed): when the invalidation made after the change has returned
\* and no withCache call is in flight, no entry of the store holds the rows
\* read before the change, and no call that ended after a hit made since then
\* has returned them.
C35_NoStaleRepopulation ==
    \A d \in Drops :
        (/\ drop[d].out = "return"
         /\ \A c \in Calls : call[c].pc \in {"idle", "done"}) =>
            \A k \in Keys : store[k].val # JsonStringify(RowsBefore)

\* ---------------------------------------------------------------------------
\* The store clients of one Client instance (SpecConn): every client made by
\* _connectRedis, the "error" events of each, and closeRedisConnection
\* ---------------------------------------------------------------------------

\* the "error" events the clients of a behaviour emit, at most
MaxErrors == 2

\* a client is open from createClient().connect() until quit() or a connect()
\* that rejected: it holds a socket or is trying to get one
OpenStates == {"connecting", "ready", "reconnecting"}

OpenClients == {i \in DOMAIN clients : clients[i] \in OpenStates}

ConnInit ==
    /\ KeyIdle
    /\ TtlIdle
    /\ store = <<>>
    /\ redisClient = 0
    /\ clients = <<>>
    /\ mysqlPool = 0
    /\ db = Arr(<<Num(1234)>>)
    /\ call = [c \in Calls |-> IdleCall]
    /\ faults = 0
    /\ SrvIdle

\* client i emits "error": the callback registered in _connectRedis runs,
\* this.redisClient = undefined, whichever client the handle points to; the
\* client itself stays open and reconnects
ClientError(i) ==
    /\ clients[i] \in OpenStates
    /\ faults < MaxErrors
    /\ faults' = faults + 1
    /\ redisClient' = 0
    /\ clients' = [clients EXCEPT ![i] = "reconnecting"]
    /\ call' = [c \in Calls |->
                  [call[c] EXCEPT !.errd = @ \/ call[c].pc \notin {"idle", "done"}]]
    /\ UNCHANGED <<keyVars, ttlVars, srvVars, store, mysqlPool, db>>

\* a mutant: the callback clears the handle only when it points to its client
ClientError_OwnHandle(i) ==
    /\ clients[i] \in OpenStates
    /\ faults < MaxErrors
    /\ faults' = faults + 1
    /\ redisClient' = IF redisClient = i THEN 0 ELSE redisClient
    /\ clients' = [clients EXCEPT ![i] = "reconnecting"]
    /\ call' = [c \in Calls |->
                  [call[c] EXCEPT !.errd = @ \/ call[c].pc \notin {"idle", "done"}]]
    /\ UNCHANGED <<keyVars, ttlVars, srvVars, store, mysqlPool, db>>

\* client i has its socket again
ClientReconnected(i) ==
    /\ clients[i] = "reconnecting"
    /\ clients' = [clients EXCEPT ![i] = "ready"]
    /\ UNCHANGED <<keyVars, ttlVars, srvVars, store, redisClient, mysqlPool, db, call, faults>>

\* a mutant: closeRedisConnection clears the handle after quit()
closeRedisConnection_ClearsHandle ==
    /\ \A c \in Calls : call[c].pc \in {"idle", "done"}
    /\ IF redisClient # 0 /\ clients[redisClient] = "ready"
       THEN clients' = [clients EXCEPT ![redisClient] = "closed"] /\ redisClient' = 0
       ELSE UNCHANGED <<clients, redisClient>>
    /\ UNCHANGED <<keyVars, ttlVars, srvVars, store, mysqlPool, db, call, faults>>

\* closeRedisConnection(): await this.redisClient?.quit(), called when no
\* cache operation is in progress; nothing happens when the handle is not set
closeRedisConnection ==
    /\ \A c \in Calls : call[c].pc \in {"idle", "done"}
    /\ IF redisClient # 0 /\ clients[redisClient] = "ready"
       THEN clients' = [clients EXCEPT ![redisClient] = "closed"]
       ELSE UNCHANGED clients
    /\ UNCHANGED <<keyVars, ttlVars, srvVars, store, redisClient, mysqlPool, db, call, faults>>

\* a command sent on a client that has been closed rejects: the call throws
ClosedReject(c) ==
    /\ call[c].pc \in {"getting", "setting"}
    /\ call[c].issued
    /\ clients[call[c].on] = "closed"
    /\ call' = [call EXCEPT ![c] = Finish(@, "error", Undefined)]
    /\ UNCHANGED <<keyVars, ttlVars, srvVars, store, redisClient, clients, mysqlPool, db, faults>>

ConnNext ==
    \/ \E c \in Calls : Start(c, "withCache", <<Q_USERS, <<Num(1234)>>, <<S_UserId>>>>, 2)
    \/ \E c \in Calls : ConnectOk(c)
    \/ \E c \in Calls : ConnectFail(c)
    \/ \E c \in Calls : GetReply(c)
    \/ \E c \in Calls : GetSkipped(c)
    \/ \E c \in Calls : GetFail(c)
    \/ \E c \in Calls : ProducerReturn(c)
    \/ \E c \in Calls : ProducerFail(c)
    \/ \E c \in Calls : SetReply(c)
    \/ \E c \in Calls : SetFail(c)
    \/ \E i \in DOMAIN clients : ClientError(i)
    \/ \E i \in DOMAIN clients : ClientReconnected(i)
    \/ closeRedisConnection
    \/ \E c \in Calls : ClosedReject(c)

SpecConn == ConnInit /\ [][ConnNext]_vars

\* C36 (as claimed): an "error" event of a client that is not the one the
\* handle points to leaves the handle as it is.
C36_ErrorClearsOwnHandleOnly ==
    [][\A i \in DOMAIN clients :
          (ClientError(i) /\ redisClient # 0 /\ redisClient # i) =>
              redisClient' = redisClient]_vars

\* C37 (as claimed): at most one of the clients the instance has made is open.
C37_AtMostOneOpenClient == Cardinality(OpenClients) <= 1

\* the step is closeRedisConnection on client i
CloseStep(i) == clients[i] # "closed" /\ clients'[i] = "closed"

\* the step is the start of call c
StartStep(c) == call[c].pc = "idle" /\ call'[c].pc # "idle"

\* C38: closeRedisConnection makes no client and leaves the handle as it is,
\* set or not; a call made while the handle points to a closed client makes no
\* client either: its command is sent on the closed client.
C38_CloseKeepsHandle ==
    /\ [][\A i \in DOMAIN clients :
             CloseStep(i) =>
                 /\ redisClient = i /\ redisClient' = i
                 /\ Len(clients') = Len(clients)]_vars
    /\ [][closeRedisConnection => (redisClient' = redisClient /\ Len(clients') = Len(clients))]_vars
    /\ [][\A c \in Calls :
             (StartStep(c) /\ redisClient # 0 /\ clients[redisClient] = "closed") =>
                 /\ clients' = clients
                 /\ redisClient' = redisClient
                 /\ call'[c].pc = "getting" /\ call'[c].issued
                 /\ call'[c].on = redisClient]_vars

\* a call made after closeRedisConnection was rejected on the closed client,
\* the only client there has been
C38_Witness ==
    \E c \in Calls :
        /\ call[c].pc = "done" /\ call[c].out = "error"
        /\ call[c].on = 1 /\ call[c].issued
        /\ clients = <<"closed">>
        /\ redisClient = 1
        /\ faults = 0

=============================================================================
